---- MODULE Spec2Model ----
(***************************************************************************)
(* A model of gofigure's recursive configuration loader (gofigure.go):     *)
(* the walk/walkDir producer goroutine, the buffered path channel, the     *)
(* cancellation channel, and the LoadRecursive/LoadFile consumer with its  *)
(* strict/lenient error policy.                                            *)
(***************************************************************************)
EXTENDS Integers, Sequences, FiniteSets, TLC

\* ------------------------------------------------------------------------
\* Bounds of the model
\* ------------------------------------------------------------------------

\* number of files in the large flat directory (more than the channel holds)
BigFiles == 102

\* ------------------------------------------------------------------------
\* Program constants
\* ------------------------------------------------------------------------

\* make(chan string, 100)
ChanCap == 100

\* ------------------------------------------------------------------------
\* The filesystem (external): directory entries, listing and open
\* ------------------------------------------------------------------------

\* a file name: an ordering key (file names sort by base) and an extension
N(base, ext) == [base |-> base, ext |-> ext]

\* a regular file; content is what the decoder will find in it
File(base, ext, openable, content) ==
    [name |-> N(base, ext), isDir |-> FALSE, ok |-> openable,
     content |-> content, children |-> <<>>]

\* a directory; ok says whether it can be listed; children in raw disk order
Dir(base, listable, children) ==
    [name |-> N(base, ""), isDir |-> TRUE, ok |-> listable,
     content |-> "", children |-> children]

NoNode == [name |-> N(0, ""), isDir |-> FALSE, ok |-> FALSE,
           content |-> "none", children |-> <<>>]

\* the kinds of file the loader can meet
FileKinds == {"good", "bad", "partial", "noopen", "hang", "txt"}

KFile(base, kind) ==
    CASE kind = "good"    -> File(base, "yaml", TRUE, "valid")
      [] kind = "bad"     -> File(base, "yaml", TRUE, "invalid")
      [] kind = "partial" -> File(base, "yaml", TRUE, "partial")
      [] kind = "noopen"  -> File(base, "yaml", FALSE, "valid")
      [] kind = "hang"    -> File(base, "yaml", TRUE, "hang")
      [] kind = "txt"     -> File(base, "txt", TRUE, "valid")

\* names of the entries of the top directory
A == N(1, "")
B == N(2, "")
U == N(3, "")
M == N(4, "")
R == N(5, "yaml")
Big == N(6, "")

\* The nested tree: A holds a1, sub (holding a2, an empty directory, a
\* directory that cannot be listed and a text file); B holds b1; U is a
\* directory that cannot be listed; R is a regular file; M does not exist.
\* Children are in raw (unsorted) disk order.
NestedTree(k1, k2, k3) ==
    Dir(0, TRUE, <<
        Dir(2, TRUE, << KFile(1, k3) >>),
        Dir(1, TRUE, <<
            Dir(5, TRUE, << File(4, "txt", TRUE, "valid"),
                            Dir(2, TRUE, <<>>),
                            Dir(3, FALSE, << File(1, "yaml", TRUE, "valid") >>),
                            KFile(1, k2) >>),
            KFile(1, k1) >>),
        Dir(3, FALSE, << File(1, "yaml", TRUE, "valid") >>),
        File(5, "yaml", TRUE, "valid") >>)

\* The large flat tree: one directory of BigFiles files, the first of kind k
\* (a file on which a strict consumer stops early), the others good
BigTree(k) ==
    Dir(0, TRUE, <<
        Dir(6, TRUE, [i \in 1..BigFiles |->
                        IF i = 1 THEN KFile(1, k) ELSE KFile(i, "good")]) >>)

\* the root lists tried on the nested tree (a root is a path: a sequence of names)
NestedRoots == { << <<A>>, <<B>> >>,
                 << <<U>>, <<B>>, <<A>> >>,
                 << <<M>>, <<R>>, <<B>> >> }

\* resolve a path (a sequence of names) from a directory node
RECURSIVE Lookup(_, _)
Lookup(node, path) ==
    IF path = <<>> THEN node
    ELSE IF ~node.isDir THEN NoNode
    ELSE LET m == {i \in DOMAIN node.children :
                      node.children[i].name = Head(path)}
         IN  IF m = {} THEN NoNode
             ELSE Lookup(node.children[CHOOSE i \in m : TRUE], Tail(path))

\* file names are compared by their ordering key
NameLess(a, b) == a.name.base < b.name.base

\* the listing sorted by file name (names are unique within a directory)
SortByName(entries) == SortSeq(entries, NameLess)

\* filepath.Join(path, name)
Join(path, name) == Append(path, name)

Last(s) == s[Len(s)]

\* ioutil.ReadDir(path): the entries sorted by file name, or an error when
\* the path is missing, is not a directory or cannot be listed
ReadDir(tree, path) ==
    LET n == Lookup(tree, path)
    IN  IF n = NoNode \/ ~n.isDir \/ ~n.ok
        THEN [err |-> TRUE, files |-> <<>>]
        ELSE [err |-> FALSE,
              files |-> LET srt == SortByName(n.children)
                        IN  [i \in DOMAIN srt |->
                               [name |-> srt[i].name, isDir |-> srt[i].isDir]]]

\* ------------------------------------------------------------------------
\* Errors and the decoder (external)
\* ------------------------------------------------------------------------

Nil == [kind |-> "nil", path |-> <<>>]
OpenErr(path) == [kind |-> "open", path |-> path]
DecodeErr(path) == [kind |-> "decode", path |-> path]

\* os.Open(path): nil error iff the file exists and can be opened
OpenFails(tree, path) ==
    LET n == Lookup(tree, path) IN n = NoNode \/ ~n.ok

\* Decoder.CanDecode(path): extension based
CanDecode(path) == Last(path).ext = "yaml"

\* ------------------------------------------------------------------------
\* State
\* ------------------------------------------------------------------------

VARIABLES
    fs,          \* the directory tree (fixed during a call)
    paths,       \* the root paths given to LoadRecursive
    StrictMode,  \* Loader.StrictMode
    ch,          \* the buffered path channel: the paths staged in it
    chClosed,    \* close(ch) has run
    cancelc,     \* the cancellation channel: TRUE once closed
    rootIdx,     \* walk: index of the next root of "for _, path := range paths"
    stack,       \* walkDir activations: [path, files, i], innermost last
    pc,          \* LoadRecursive: "range", "open", "decode", "defer", "returned"
    cur,         \* the path LoadFile is working on
    fp,          \* LoadFile's handle: "none", "open", "nil" (failed open)
    result,      \* the error LoadRecursive returns
    config,      \* the target object: the decodes that mutated it
    emitted,     \* history: paths sent on ch
    received,    \* history: paths received from ch
    opened,      \* history: paths os.Open was called on
    decoded,     \* history: Decode invocations [path, fp]
    handles,     \* file handles open and not yet closed
    ret,         \* the value the latest LoadFile call returned
    self,        \* which LoadRecursive call the variables above belong to
    other        \* the state of a second call on the same Loader, if any

vars == <<fs, paths, StrictMode, ch, chClosed, cancelc, rootIdx, stack, pc,
          cur, fp, result, config, emitted, received, opened, decoded,
          handles, ret, self, other>>

producerVars == <<rootIdx, stack, chClosed, emitted>>
consumerVars == <<pc, cur, fp, result, config, received, opened, decoded,
                  handles, ret, cancelc>>
envVars == <<fs, paths, StrictMode>>
callVars == <<self, other>>

\* the state of one LoadRecursive call right after walk has returned
NewCall(id, roots) ==
    [self |-> id, paths |-> roots, ch |-> <<>>, chClosed |-> FALSE,
     cancelc |-> FALSE, rootIdx |-> 1, stack |-> <<>>, pc |-> "range",
     cur |-> <<>>, fp |-> "none", result |-> Nil, config |-> <<>>,
     emitted |-> <<>>, received |-> <<>>, opened |-> <<>>, decoded |-> <<>>,
     handles |-> {}, ret |-> Nil]

\* no second call
NoCall == [self |-> 0]

\* the variables of the call in hand take the values of the record c
StartsAs(c) ==
    /\ self = c.self
    /\ paths = c.paths
    /\ ch = c.ch
    /\ chClosed = c.chClosed
    /\ cancelc = c.cancelc
    /\ rootIdx = c.rootIdx
    /\ stack = c.stack
    /\ pc = c.pc
    /\ cur = c.cur
    /\ fp = c.fp
    /\ result = c.result
    /\ config = c.config
    /\ emitted = c.emitted
    /\ received = c.received
    /\ opened = c.opened
    /\ decoded = c.decoded
    /\ handles = c.handles
    /\ ret = c.ret

Init ==
    /\ \/ /\ \E k1 \in FileKinds, k2 \in FileKinds, k3 \in FileKinds :
                fs = NestedTree(k1, k2, k3)
          /\ \E roots \in NestedRoots : StartsAs(NewCall(1, roots))
          /\ StrictMode \in BOOLEAN
       \/ /\ \E k \in {"bad", "hang"} : fs = BigTree(k)
          /\ StartsAs(NewCall(1, << <<Big>> >>))
          /\ StrictMode = TRUE
    /\ other = NoCall

\* ------------------------------------------------------------------------
\* The producer goroutine: walk and walkDir
\* ------------------------------------------------------------------------

Top == stack[Len(stack)]
Pop == SubSeq(stack, 1, Len(stack) - 1)
AtEntry == stack # <<>> /\ Top.i <= Len(Top.files)
Entry == Top.files[Top.i]
Advance == [stack EXCEPT ![Len(stack)].i = @ + 1]

\* a call walkDir(path) made with activations stk suspended below it:
\* ReadDir, and on error log and return at once
walkDirCall_ErrAsFile(stk, path) ==
    LET rd == ReadDir(fs, path)
    IN  IF rd.err
        THEN Append(stk, [path |-> SubSeq(path, 1, Len(path) - 1),
                          files |-> << [name |-> Last(path),
                                        isDir |-> FALSE] >>,
                          i |-> 1])
        ELSE Append(stk, [path |-> path, files |-> rd.files, i |-> 1])
walkDirCall_ErrAborts(stk, path) ==
    LET rd == ReadDir(fs, path)
    IN  IF rd.err THEN <<>>
        ELSE Append(stk, [path |-> path, files |-> rd.files, i |-> 1])
walkDirCall(stk, path) ==
    LET rd == ReadDir(fs, path)
    IN  IF rd.err THEN stk
        ELSE Append(stk, [path |-> path, files |-> rd.files, i |-> 1])

\* walk: the goroutine calls walkDir for the next root
walkRoot ==
    /\ ~chClosed
    /\ stack = <<>>
    /\ rootIdx <= Len(paths)
    /\ stack' = walkDirCall(<<>>, paths[rootIdx])
    /\ rootIdx' = rootIdx + 1
    /\ UNCHANGED <<chClosed, emitted, ch>>
    /\ UNCHANGED consumerVars
    /\ UNCHANGED envVars
    /\ UNCHANGED callVars

\* "if file.IsDir()"
IsDir_Never(e) == FALSE
IsDir(e) == e.isDir

\* walkDir: the entry is a directory: recurse, then continue with the next
walkDirRecurse ==
    /\ AtEntry
    /\ IsDir(Entry)
    /\ stack' = walkDirCall(Advance, Join(Top.path, Entry.name))
    /\ UNCHANGED <<rootIdx, chClosed, emitted, ch>>
    /\ UNCHANGED consumerVars
    /\ UNCHANGED envVars
    /\ UNCHANGED callVars

\* the send case of the select is ready when the buffer has room
SendReady_Always(c) == TRUE
SendReady(c) == Len(c) < ChanCap

\* the receive case of the select is ready once cancelc is closed
CancelReady_Never(c) == FALSE
CancelReady(c) == c

\* walkDir: select case ch <- fullpath
walkDirSend ==
    /\ AtEntry
    /\ ~IsDir(Entry)
    /\ SendReady(ch)
    /\ ch' = Append(ch, Join(Top.path, Entry.name))
    /\ emitted' = Append(emitted, Join(Top.path, Entry.name))
    /\ stack' = Advance
    /\ UNCHANGED <<rootIdx, chClosed>>
    /\ UNCHANGED consumerVars
    /\ UNCHANGED envVars
    /\ UNCHANGED callVars

\* walkDir: select case <-cancelc: this activation returns
walkDirCanceled ==
    /\ AtEntry
    /\ ~IsDir(Entry)
    /\ CancelReady(cancelc)
    /\ stack' = Pop
    /\ UNCHANGED <<rootIdx, chClosed, emitted, ch>>
    /\ UNCHANGED consumerVars
    /\ UNCHANGED envVars
    /\ UNCHANGED callVars

\* walkDir: the loop over files is over: this activation returns
walkDirReturn ==
    /\ stack # <<>>
    /\ Top.i > Len(Top.files)
    /\ stack' = Pop
    /\ UNCHANGED <<rootIdx, chClosed, emitted, ch>>
    /\ UNCHANGED consumerVars
    /\ UNCHANGED envVars
    /\ UNCHANGED callVars

\* walk: "for _, path := range paths" is over
WalkDone_AfterFirstRoot(i, roots) == i > 1
WalkDone(i, roots) == i > Len(roots)

\* the state of ch after the deferred close(ch)
ClosedByDefer_Forgotten(c) == c
ClosedByDefer(c) == TRUE

\* walk: all roots walked: the deferred close(ch)
walkClose ==
    /\ ~chClosed
    /\ stack = <<>>
    /\ WalkDone(rootIdx, paths)
    /\ chClosed' = ClosedByDefer(chClosed)
    /\ UNCHANGED <<rootIdx, stack, emitted, ch>>
    /\ UNCHANGED consumerVars
    /\ UNCHANGED envVars
    /\ UNCHANGED callVars

Producer ==
    \/ walkRoot
    \/ walkDirRecurse
    \/ walkDirSend
    \/ walkDirCanceled
    \/ walkDirReturn
    \/ walkClose

\* ------------------------------------------------------------------------
\* The consumer: LoadRecursive and LoadFile
\* ------------------------------------------------------------------------

\* LoadRecursive: "if l.decoder.CanDecode(path)"
Accepts_All(path) == TRUE
Accepts(path) == CanDecode(path)

\* "for path := range ch" ends when ch is closed and drained
RangeEnds_WhenEmpty(c, closed) == c = <<>>
RangeEnds(c, closed) == c = <<>> /\ closed

\* LoadFile after os.Open: "if err != nil { ...; if l.StrictMode { return err } }"
OpenErrReturns(strict, err) == err # Nil /\ strict

\* LoadFile after Decode: "if err != nil { ...; if l.StrictMode { return err } }"
DecodeErrReturns_Always(strict, err) == err # Nil
DecodeErrReturns(strict, err) == err # Nil /\ strict

\* LoadRecursive after LoadFile: "if err != nil { ...; if l.StrictMode { return err } }"
LoadErrReturns_Never(strict, err) == FALSE
LoadErrReturns(strict, err) == err # Nil /\ strict

\* the state of cancelc after the deferred close(cancelc)
DeferredClose_Forgotten(c) == c
DeferredClose(c) == TRUE

\* LoadRecursive receives LoadFile's return value err for the current path
LoadRecursiveAfterLoad(err) ==
    /\ ret' = err
    /\ IF LoadErrReturns(StrictMode, err)
       THEN /\ result' = err
            /\ pc' = "defer"
       ELSE /\ result' = result
            /\ pc' = "range"

\* a receive from the buffered channel: the oldest staged path, first in
\* first out
Receive_Newest(c) ==
    [path |-> c[Len(c)], rest |-> SubSeq(c, 1, Len(c) - 1)]
Receive(c) == [path |-> Head(c), rest |-> Tail(c)]

\* the loop body calls LoadFile synchronously: the next receive happens
\* only once LoadFile has returned
LoopReady_Async(p) == p \in {"range", "decode"}
LoopReady(p) == p = "range"

\* a path is received from ch and filtered by the decoder
rangeRecv ==
    /\ LoopReady(pc)
    /\ ch # <<>>
    /\ ch' = Receive(ch).rest
    /\ received' = Append(received, Receive(ch).path)
    /\ IF Accepts(Receive(ch).path)
       THEN /\ pc' = "open"
            /\ cur' = Receive(ch).path
       ELSE /\ pc' = "range"
            /\ cur' = cur
    /\ UNCHANGED <<fp, result, config, opened, decoded, handles, ret,
                   cancelc>>
    /\ UNCHANGED producerVars
    /\ UNCHANGED envVars
    /\ UNCHANGED callVars

\* the range loop ends: return nil
rangeEnd ==
    /\ pc = "range"
    /\ RangeEnds(ch, chClosed)
    /\ result' = Nil
    /\ pc' = "defer"
    /\ UNCHANGED <<cur, fp, config, received, opened, decoded, handles,
                   ret, cancelc, ch>>
    /\ UNCHANGED producerVars
    /\ UNCHANGED envVars
    /\ UNCHANGED callVars

\* LoadFile: os.Open(path) and the handling of its error
LoadFileOpen ==
    /\ pc = "open"
    /\ opened' = Append(opened, cur)
    /\ LET err == IF OpenFails(fs, cur) THEN OpenErr(cur) ELSE Nil
       IN  /\ fp' = IF err = Nil THEN "open" ELSE "nil"
           /\ handles' = IF err = Nil THEN handles \cup {cur} ELSE handles
           /\ IF OpenErrReturns(StrictMode, err)
              THEN /\ LoadRecursiveAfterLoad(err)
              ELSE /\ pc' = "decode"
                   /\ result' = result
                   /\ ret' = ret
    /\ UNCHANGED <<cur, config, received, decoded, cancelc, ch>>
    /\ UNCHANGED producerVars
    /\ UNCHANGED envVars
    /\ UNCHANGED callVars

\* what Decode finds in the stream it is given
Content(tree, path, handle) ==
    IF handle = "open" THEN Lookup(tree, path).content ELSE "unreadable"

\* Decoder.Decode(fp, config): its error
DecodeError(path, content) ==
    IF content = "valid" THEN Nil ELSE DecodeErr(path)

\* Decoder.Decode(fp, config): its effect on the target object
DecodeEffect(cfg, path, content) ==
    CASE content = "valid"   -> Append(cfg, [path |-> path, part |-> "all"])
      [] content = "partial" -> Append(cfg, [path |-> path, part |-> "some"])
      [] OTHER               -> cfg

\* LoadFile: the handles left open once the deferred fp.Close() has run,
\* whatever error err Decode returned
HandlesAfterClose_OnSuccessOnly(h, path, err) ==
    IF err = Nil THEN h \ {path} ELSE h
HandlesAfterClose(h, path, err) == h \ {path}

\* LoadFile: Decoder.Decode(fp, config), the handling of its error, and the
\* deferred fp.Close(); a decoder stuck on its stream never returns
LoadFileDecode ==
    /\ pc = "decode"
    /\ LET content == Content(fs, cur, fp)
           err == DecodeError(cur, content)
       IN  /\ content # "hang"
           /\ decoded' = Append(decoded, [path |-> cur, fp |-> fp])
           /\ config' = DecodeEffect(config, cur, content)
           /\ IF DecodeErrReturns(StrictMode, err)
              THEN LoadRecursiveAfterLoad(err)
              ELSE LoadRecursiveAfterLoad(Nil)
    /\ handles' = HandlesAfterClose(handles, cur,
                                    DecodeError(cur, Content(fs, cur, fp)))
    /\ fp' = "none"
    /\ UNCHANGED <<cur, received, opened, cancelc, ch>>
    /\ UNCHANGED producerVars
    /\ UNCHANGED envVars
    /\ UNCHANGED callVars

\* close(cancelc) closes the channel walk made for this call: the channels
\* of another call are other channels
OtherAfterClose_SharedCancel(o) ==
    IF o = NoCall THEN o ELSE [o EXCEPT !.cancelc = TRUE]
OtherAfterClose(o) == o

\* LoadRecursive returns: the deferred close(cancelc) runs
deferCloseCancel ==
    /\ pc = "defer"
    /\ cancelc' = DeferredClose(cancelc)
    /\ pc' = "returned"
    /\ other' = OtherAfterClose(other)
    /\ self' = self
    /\ UNCHANGED <<cur, fp, result, config, received, opened, decoded,
                   handles, ret, ch>>
    /\ UNCHANGED producerVars
    /\ UNCHANGED envVars

Consumer ==
    \/ rangeRecv
    \/ rangeEnd
    \/ LoadFileOpen
    \/ LoadFileDecode
    \/ deferCloseCancel

Next == Producer \/ Consumer

Spec == Init /\ [][Next]_vars

\* the calls followed up to termination: the large directory, and the
\* nested tree with good, failing and blocking files
LiveInit ==
    /\ Init
    /\ \/ fs = BigTree("bad")
       \/ fs = BigTree("hang")
       \/ \E k1 \in {"good", "bad", "hang"}, k2 \in {"noopen", "txt"} :
             fs = NestedTree(k1, k2, "good")

\* ------------------------------------------------------------------------
\* Two LoadRecursive calls running concurrently on the same Loader
\* ------------------------------------------------------------------------

\* the state of the call in hand, as a record
ThisCall ==
    [self |-> self, paths |-> paths, ch |-> ch, chClosed |-> chClosed,
     cancelc |-> cancelc, rootIdx |-> rootIdx, stack |-> stack, pc |-> pc,
     cur |-> cur, fp |-> fp, result |-> result, config |-> config,
     emitted |-> emitted, received |-> received, opened |-> opened,
     decoded |-> decoded, handles |-> handles, ret |-> ret]

\* the scheduler turns to the goroutines of the other call: the two calls
\* share the Loader (StrictMode, the decoder) and the filesystem only
SwitchCall ==
    /\ other # NoCall
    /\ other' = ThisCall
    /\ self' = other.self
    /\ paths' = other.paths
    /\ ch' = other.ch
    /\ chClosed' = other.chClosed
    /\ cancelc' = other.cancelc
    /\ rootIdx' = other.rootIdx
    /\ stack' = other.stack
    /\ pc' = other.pc
    /\ cur' = other.cur
    /\ fp' = other.fp
    /\ result' = other.result
    /\ config' = other.config
    /\ emitted' = other.emitted
    /\ received' = other.received
    /\ opened' = other.opened
    /\ decoded' = other.decoded
    /\ handles' = other.handles
    /\ ret' = other.ret
    /\ UNCHANGED <<fs, StrictMode>>

\* the root lists of the second of two concurrent calls
TwoRoots == { << <<A>>, <<B>> >>, << <<B>>, <<A>> >> }

TwoInit ==
    /\ \E k2 \in {"good", "bad"} : fs = NestedTree("good", k2, "good")
    /\ StrictMode \in BOOLEAN
    /\ StartsAs(NewCall(1, << <<A>>, <<B>> >>))
    /\ \E roots \in TwoRoots : other = NewCall(2, roots)

TwoNext == Next \/ SwitchCall

TwoSpec == TwoInit /\ [][TwoNext]_vars

\* the Go scheduler runs every goroutine that can take a step
FairSpec ==
    LiveInit /\ [][Next]_vars /\ WF_vars(Producer) /\ WF_vars(Consumer)

TypeOK ==
    /\ Len(ch) <= ChanCap
    /\ pc \in {"range", "open", "decode", "defer", "returned"}
    /\ fp \in {"none", "open", "nil"}

\* ------------------------------------------------------------------------
\* Reference definitions used by the properties
\* ------------------------------------------------------------------------

\* the concatenation of the sequences f[lo], ..., f[hi]
RECURSIVE ConcatRange(_, _, _)
ConcatRange(f, lo, hi) ==
    IF lo > hi THEN <<>>
    ELSE IF lo = hi THEN f[lo]
    ELSE LET mid == (lo + hi) \div 2
         IN  ConcatRange(f, lo, mid) \o ConcatRange(f, mid + 1, hi)

\* the pre-order, depth-first enumeration of the files under a path
RECURSIVE PreOrderOf(_, _)
PreOrderOf(tree, path) ==
    LET rd == ReadDir(tree, path)
        sub == [i \in DOMAIN rd.files |->
                  IF rd.files[i].isDir
                  THEN PreOrderOf(tree, Join(path, rd.files[i].name))
                  ELSE << Join(path, rd.files[i].name) >>]
    IN  IF rd.err THEN <<>> ELSE ConcatRange(sub, 1, Len(rd.files))

\* the pre-order enumeration of a list of roots, in root order
PreOrder(tree, roots) ==
    ConcatRange([r \in DOMAIN roots |-> PreOrderOf(tree, roots[r])],
                1, Len(roots))

\* LoadFile on this path meets an open or a decode failure
LoadFails(path) ==
    \/ OpenFails(fs, path)
    \/ Lookup(fs, path).content \in {"invalid", "partial"}

\* the error that failure is
LoadError(path) ==
    IF OpenFails(fs, path) THEN OpenErr(path) ELSE DecodeErr(path)

IsPrefix(s, t) == Len(s) <= Len(t) /\ SubSeq(t, 1, Len(s)) = s

\* ------------------------------------------------------------------------
\* Properties
\* ------------------------------------------------------------------------

\* C1: in strict mode the first file whose load fails is the last file ever
\* opened, Decode is invoked only on files opened up to it, and once
\* LoadRecursive has returned its result is exactly that file's error (nil
\* when no load failed).
C1_StrictReturnsFirstError ==
    StrictMode =>
        /\ \A i \in DOMAIN opened :
              (i < Len(opened) \/ pc \in {"range", "defer", "returned"})
              /\ LoadFails(opened[i])
              => /\ i = Len(opened)
                 /\ pc \in {"defer", "returned"}
                 /\ result = LoadError(opened[i])
        /\ Len(decoded) <= Len(opened)
        /\ \A j \in DOMAIN decoded : decoded[j].path = opened[j]
        /\ (pc = "returned" /\ result # Nil)
              => /\ opened # <<>>
                 /\ LoadFails(opened[Len(opened)])
                 /\ result = LoadError(opened[Len(opened)])

\* strict mode has returned the error of the second file it opened while a
\* later accepted path had already been discovered and was never opened
C1_Witness ==
    /\ StrictMode
    /\ pc = "returned"
    /\ Len(opened) = 2
    /\ result = DecodeErr(opened[2])
    /\ \E i \in DOMAIN emitted :
          /\ CanDecode(emitted[i])
          /\ \A j \in DOMAIN opened : opened[j] # emitted[i]

\* C2: in lenient mode the result is always nil, and when LoadRecursive has
\* returned, LoadFile was called on every accepted path of the traversal, in
\* traversal order, and Decode read every accepted file that could be
\* opened, whatever failed before it.
C2_LenientLoadsEveryFile ==
    ~StrictMode =>
        /\ result = Nil
        /\ pc = "returned" =>
              /\ opened = SelectSeq(PreOrder(fs, paths), CanDecode)
              /\ \A i \in DOMAIN opened :
                    ~OpenFails(fs, opened[i]) =>
                       \E j \in DOMAIN decoded :
                          decoded[j] = [path |-> opened[i], fp |-> "open"]

\* lenient mode has returned after the first of three files failed to load
\* and the third one was decoded successfully
C2_Witness ==
    /\ ~StrictMode
    /\ pc = "returned"
    /\ Len(opened) = 3
    /\ LoadFails(opened[1])
    /\ Len(config) >= 1
    /\ config[Len(config)] = [path |-> opened[3], part |-> "all"]

\* C3: a traversal that ran to exhaustion without cancellation has emitted
\* exactly the pre-order, depth-first enumeration of the roots, and no
\* emitted path is a directory.
C3_EmitsPreOrder ==
    /\ \A i \in DOMAIN emitted : ~Lookup(fs, emitted[i]).isDir
    /\ (chClosed /\ ~cancelc) => emitted = PreOrder(fs, paths)

\* the traversal of roots A, B has finished uncancelled: a file of A, the
\* files of A's subdirectory, then the file of B
C3_Witness ==
    /\ chClosed
    /\ ~cancelc
    /\ paths = << <<A>>, <<B>> >>
    /\ Len(emitted) = 4
    /\ Len(emitted[1]) = 2
    /\ Len(emitted[2]) = 3
    /\ Len(emitted[3]) = 3
    /\ emitted[4][1] = B

\* C4: whenever LoadRecursive has returned, the cancellation channel of its
\* traversal is closed.
C4_ReturnedImpliesCancelled ==
    pc = "returned" => cancelc

\* LoadRecursive has returned from a strict-mode abort on an open error
C4_Witness ==
    /\ pc = "returned"
    /\ result.kind = "open"
    /\ cancelc

\* C5: once the cancellation channel is closed, the producer goroutine
\* eventually finishes and closes the path channel.
C5_CancelLeadsToTermination ==
    cancelc ~> chClosed

\* cancellation has been signalled while the producer is blocked on a full
\* buffer with files left to send and the consumer gone
C5_Witness ==
    /\ cancelc
    /\ pc = "returned"
    /\ ~chClosed
    /\ Len(ch) = ChanCap
    /\ AtEntry

\* C6: no path is placed on the path channel in a step taken after the
\* cancellation channel was closed.
C6_NoEmitAfterCancel ==
    [][cancelc => emitted' = emitted]_vars

\* C7: the traversal never waits forever on a consumer that neither reads
\* nor cancels: eventually it has terminated or has been cancelled.
C7_ProducerGivesUp ==
    <>(cancelc \/ chClosed)

\* C8: the channel never holds more than ChanCap paths, and no path is
\* emitted in a step taken while it is full.
C8_BoundedStaging ==
    /\ [](Len(ch) <= ChanCap)
    /\ [][Len(ch) = ChanCap => emitted' = emitted]_vars

\* the buffer is full and the producer is blocked with a file to send
C8_Witness ==
    /\ Len(ch) = ChanCap
    /\ ~cancelc
    /\ AtEntry
    /\ ~IsDir(Entry)

\* C9: as long as the decoder has rejected every path received so far, no
\* file was opened, Decode was not invoked, the target object is unmodified,
\* and a LoadRecursive that has returned has returned nil.
C9_NothingAcceptedNothingTouched ==
    (\A i \in DOMAIN received : ~CanDecode(received[i])) =>
        /\ opened = <<>>
        /\ decoded = <<>>
        /\ config = <<>>
        /\ handles = {}
        /\ pc = "returned" => result = Nil

\* strict mode has returned after the decoder rejected all four paths
C9_Witness ==
    /\ StrictMode
    /\ pc = "returned"
    /\ Len(received) = 4
    /\ \A i \in DOMAIN received : ~CanDecode(received[i])
    /\ config = <<>>

\* C10: in lenient mode Decode is never invoked for a path whose open failed.
C10_LenientOpenFailureSkipsDecode ==
    ~StrictMode =>
        \A j \in DOMAIN decoded : ~OpenFails(fs, decoded[j].path)

\* the tree with every directory that cannot be listed replaced by an
\* empty one
RECURSIVE EmptyUnlistable(_)
EmptyUnlistable(node) ==
    IF ~node.isDir THEN node
    ELSE IF ~node.ok THEN [node EXCEPT !.ok = TRUE, !.children = <<>>]
    ELSE [node EXCEPT !.children =
            [i \in DOMAIN node.children |->
                EmptyUnlistable(node.children[i])]]

\* the path names a directory that can be listed
Listable(tree, path) ==
    LET n == Lookup(tree, path) IN n # NoNode /\ n.isDir /\ n.ok

\* the roots that can be listed
ListableRoots(tree, roots) ==
    LET Test(r) == Listable(tree, r) IN SelectSeq(roots, Test)

\* C11: a traversal that ran to exhaustion has emitted the pre-order
\* enumeration of the listable roots in the tree where every unlistable
\* directory is replaced by an empty one; and an error LoadRecursive holds as
\* its result is never a listing error: it is the open or decode error of a
\* file that was opened.
C11_UnreadableDirectoriesAreSkipped ==
    /\ (chClosed /\ ~cancelc) =>
          emitted = PreOrder(EmptyUnlistable(fs), ListableRoots(fs, paths))
    /\ result # Nil =>
          \E i \in DOMAIN opened : result = LoadError(opened[i])

\* the traversal of roots U (unlistable), B, A has finished: the file of B,
\* then the files of A, the last one met after the unlistable directory
\* inside A's subdirectory
C11_Witness ==
    /\ chClosed
    /\ ~cancelc
    /\ paths = << <<U>>, <<B>>, <<A>> >>
    /\ Len(emitted) = 4
    /\ emitted[1][1] = B
    /\ Len(emitted[4]) = 3
    /\ Last(emitted[4]).base = 4

\* C12: the consumer receives the paths in the order they were emitted
\* (what was emitted is what was received followed by what is staged);
\* LoadFile is called on the accepted paths in the order received; Decode
\* runs on the files in the order they were opened; and a file is opened
\* only when the Decode of every file opened before has completed and its
\* handle is closed, so at most one LoadFile is in progress.
C12_OrderedOneAtATime ==
    /\ emitted = received \o ch
    /\ LET acc == SelectSeq(received, CanDecode)
       IN  opened = IF pc = "open" THEN SubSeq(acc, 1, Len(acc) - 1) ELSE acc
    /\ Len(decoded) <= Len(opened)
    /\ \A j \in DOMAIN decoded : decoded[j].path = opened[j]
    /\ pc = "open" => Len(decoded) = Len(opened)
    /\ pc = "decode" => Len(decoded) = Len(opened) - 1 /\ handles \subseteq {cur}
    /\ pc # "decode" => handles = {}

\* two files have been decoded, a third one is about to be opened and the
\* producer has run ahead of the consumer
C12_Witness ==
    /\ pc = "open"
    /\ Len(decoded) = 2
    /\ ch # <<>>
    /\ emitted = received \o ch

\* the range loop of the call c ended because ch was closed and drained:
\* its traversal was delivered in full, uncancelled
DeliveredAll(c) == c.pc \in {"defer", "returned"} /\ c.result = Nil

\* C13: two traversals of the same roots over the same tree deliver the
\* same path sequence, whatever the interleaving of their producers and
\* consumers: while neither is cancelled one has received a prefix of what
\* the other has, and once both were delivered in full the two sequences
\* are identical.
C13_TraversalIsDeterministic ==
    (other # NoCall /\ other.paths = paths) =>
        /\ (~cancelc /\ ~other.cancelc) =>
              \/ IsPrefix(received, other.received)
              \/ IsPrefix(other.received, received)
        /\ (DeliveredAll(ThisCall) /\ DeliveredAll(other)) =>
              /\ received = other.received
              /\ emitted = other.emitted

\* two calls over the same roots have both been delivered their four paths
C13_Witness ==
    /\ other # NoCall
    /\ other.paths = paths
    /\ DeliveredAll(ThisCall)
    /\ DeliveredAll(other)
    /\ Len(received) = 4
    /\ Len(other.received) = 4

\* what a call over these roots does when it runs alone: the accepted
\* paths of the traversal, the first of them whose load fails, and from
\* these the files it opens, its result and its target object
AcceptedPaths(roots) == SelectSeq(PreOrder(fs, roots), CanDecode)

FailingPaths(roots) == SelectSeq(AcceptedPaths(roots), LoadFails)

AloneOpened(roots) ==
    LET acc == AcceptedPaths(roots)
        first == CHOOSE i \in DOMAIN acc : /\ LoadFails(acc[i])
                                           /\ \A j \in 1..(i - 1) :
                                                 ~LoadFails(acc[j])
    IN  IF StrictMode /\ FailingPaths(roots) # <<>>
        THEN SubSeq(acc, 1, first)
        ELSE acc

AloneResult(roots) ==
    IF StrictMode /\ FailingPaths(roots) # <<>>
    THEN LoadError(FailingPaths(roots)[1])
    ELSE Nil

Mutates(path) ==
    ~OpenFails(fs, path) /\ Lookup(fs, path).content \in {"valid", "partial"}

AloneConfig(roots) ==
    LET m == SelectSeq(AloneOpened(roots), Mutates)
    IN  [i \in DOMAIN m |->
           [path |-> m[i],
            part |-> IF Lookup(fs, m[i]).content = "valid"
                     THEN "all" ELSE "some"]]

\* the call c behaves as if it ran alone
RunsAsAlone(c) ==
    /\ c.cancelc => c.pc = "returned"
    /\ (c.chClosed /\ ~c.cancelc) => c.emitted = PreOrder(fs, c.paths)
    /\ IsPrefix(c.opened, AloneOpened(c.paths))
    /\ c.pc = "returned" =>
          /\ c.result = AloneResult(c.paths)
          /\ c.opened = AloneOpened(c.paths)
          /\ c.config = AloneConfig(c.paths)

\* C14: of two calls running concurrently on the same Loader, each has its
\* cancellation channel closed only by its own return, gets its full
\* traversal in order while it is not cancelled, and ends with the result,
\* the opened files and the target object it has when it runs alone.
C14_ConcurrentCallsIndependent ==
    other # NoCall => RunsAsAlone(ThisCall) /\ RunsAsAlone(other)

\* one call has returned from a strict-mode abort while the other call,
\* over other roots, is not cancelled, has had its four paths emitted and
\* is still loading
C14_Witness ==
    /\ other # NoCall
    /\ StrictMode
    /\ pc = "returned"
    /\ result # Nil
    /\ other.paths # paths
    /\ ~other.cancelc
    /\ other.chClosed
    /\ Len(other.emitted) = 4
    /\ other.pc = "decode"

\* LoadFile has returned from its latest call, made on the last opened path
LoadFileReturned == opened # <<>> /\ pc \in {"range", "defer", "returned"}

\* Decode has been invoked on the path
DecodeInvoked(path) == \E j \in DOMAIN decoded : decoded[j].path = path

IsRegularFile(tree, path) ==
    LET n == Lookup(tree, path) IN n # NoNode /\ ~n.isDir

\* the roots that are not regular files
RootsButFiles(tree, roots) ==
    LET Test(r) == ~IsRegularFile(tree, r) IN SelectSeq(roots, Test)

\* C16 as stated: when the traversal has run to exhaustion, every root that
\* is a regular file has been emitted as a discovered path.
C16_FileRootIsEmitted ==
    (chClosed /\ ~cancelc) =>
        \A r \in DOMAIN paths :
            IsRegularFile(fs, paths[r]) =>
                \E i \in DOMAIN emitted : emitted[i] = paths[r]

\* C16 (amended): a root that is a regular file contributes nothing: it is
\* never emitted and never opened, and a traversal that ran to exhaustion
\* has emitted the pre-order enumeration of the other roots, in root order.
C16_FileRootContributesNothing ==
    /\ \A r \in DOMAIN paths :
          IsRegularFile(fs, paths[r]) =>
              /\ \A i \in DOMAIN emitted : emitted[i] # paths[r]
              /\ \A i \in DOMAIN opened : opened[i] # paths[r]
    /\ (chClosed /\ ~cancelc) =>
          emitted = PreOrder(fs, RootsButFiles(fs, paths))

\* the traversal of a missing root, the regular file R and B has finished:
\* only the file of B was emitted
C16_Witness ==
    /\ chClosed
    /\ ~cancelc
    /\ paths = << <<M>>, <<R>>, <<B>> >>
    /\ IsRegularFile(fs, <<R>>)
    /\ Len(emitted) = 1
    /\ emitted[1][1] = B

\* C17: a file handle is open only while LoadFile is between its os.Open
\* and its return: whenever LoadFile is not in progress, and in particular
\* once LoadRecursive has returned, no handle is open.
C17_HandlesClosedOnReturn ==
    /\ Cardinality(handles) <= 1
    /\ pc \in {"range", "open", "defer", "returned"} => handles = {}

\* LoadRecursive has returned from a strict-mode abort on a decode error of
\* a file it had opened, and the handle is closed
C17_Witness ==
    /\ StrictMode
    /\ pc = "returned"
    /\ result.kind = "decode"
    /\ decoded[Len(decoded)] = [path |-> result.path, fp |-> "open"]
    /\ handles = {}

\* the set of files in the listable directories under a path
RECURSIVE FilesUnder(_, _)
FilesUnder(tree, path) ==
    LET n == Lookup(tree, path)
    IN  IF ~Listable(tree, path) THEN {}
        ELSE UNION { IF n.children[i].isDir
                     THEN FilesUnder(tree, Join(path, n.children[i].name))
                     ELSE { Join(path, n.children[i].name) }
                     : i \in DOMAIN n.children }

FilesUnderRoots(tree, roots) ==
    UNION { FilesUnder(tree, roots[r]) : r \in DOMAIN roots }

\* the consumer is inside a Decode call that does not return
DecoderStuck == pc = "decode" /\ Content(fs, cur, fp) = "hang"

\* C18: a traversal that ran to exhaustion has emitted each file of the
\* listable directories under the roots exactly once; and every
\* LoadRecursive call eventually returns, unless a Decode call never does.
C18_CallTerminates ==
    /\ []((chClosed /\ ~cancelc) =>
            /\ {emitted[i] : i \in DOMAIN emitted} = FilesUnderRoots(fs, paths)
            /\ \A i, j \in DOMAIN emitted : emitted[i] = emitted[j] => i = j)
    /\ <>(pc = "returned" \/ DecoderStuck)

\* a lenient call has returned nil after the whole traversal was delivered
C18_Witness ==
    /\ ~StrictMode
    /\ pc = "returned"
    /\ result = Nil
    /\ chClosed
    /\ Len(received) = 4

\* C19: the path channel is closed by a producer step only, when the walk
\* is over, and after that the producer takes no step, so nothing is sent on
\* the closed channel and it is not closed again; the cancellation channel
\* is closed only by the consumer's return, it is open until then, the
\* consumer takes no step afterwards, and once closed it stays closed.
C19_ChannelDiscipline ==
    /\ [](chClosed => stack = <<>> /\ rootIdx > Len(paths))
    /\ [][chClosed' # chClosed => chClosed' /\ UNCHANGED consumerVars]_vars
    /\ [][chClosed => UNCHANGED producerVars]_vars
    /\ [](pc \in {"range", "open", "decode", "defer"} => ~cancelc)
    /\ [][cancelc' # cancelc =>
            /\ cancelc'
            /\ pc = "defer"
            /\ pc' = "returned"
            /\ UNCHANGED producerVars]_vars
    /\ [][pc = "returned" => UNCHANGED consumerVars]_vars

\* both channels are closed: the producer finished after sending paths and
\* LoadRecursive has returned
C19_Witness ==
    /\ chClosed
    /\ cancelc
    /\ pc = "returned"
    /\ Len(emitted) >= 2
    /\ ch # <<>>

\* C20: in every state the paths emitted so far are a prefix of the full
\* pre-order traversal sequence of the roots.
C20_EmittedIsPrefixOfPreOrder ==
    IsPrefix(emitted, PreOrder(fs, paths))

====
